---------------------------- MODULE Spec2Model ----------------------------
(***************************************************************************)
(* Model of the Juniper device-metrics enrichment plugin                   *)
(* (plugin_enrichment_juniper_device_metrics.py).                          *)
(*                                                                         *)
(* Python values are modelled as follows: str is a TLA+ string, a dict is  *)
(* a function whose DOMAIN is the set of its keys, a list (an SNMP walk)   *)
(* is a sequence of varbinds [index, value] and a raised exception is the  *)
(* name of the exception in the field exc of the result.                   *)
(***************************************************************************)
EXTENDS Integers, Sequences, FiniteSets, TLC

VARIABLES
    polling_frequency,   \* self._plugin_conf['main']['polling_frequency'], as configured (a str)
    include_disk,        \* self._plugin_conf['metrics_group']['include_disk_metrics_group']
    juniper_model,       \* resource_metadata['model']
    snmp,                \* what the device answers to each bulk_walk, by subtree
    callPc,              \* position of a single call of a pure method
    callResult,          \* what that call returned or raised
    pc,                  \* position of get_enrichment
    cached,              \* the memoized properties held in the plugin's __dict__
    oids_map,            \* self._oids_map
    metrics_groups,      \* self._metrics_groups
    sink,                \* what add_enrichment_set answered
    log,                 \* records written to self._logger
    enrichment_group,    \* the enrichment sets self.enrichment_group holds
    enrichment_group_set, \* the groups self.enrichment_group_set holds
    returned,            \* what get_enrichment returned
    stack,               \* per thread, the property reads in progress, innermost last
    lockOwner,           \* per property, the thread holding the descriptor's RLock (0: free)
    lockCount,           \* per property, how many times its owner holds the RLock
    runs,                \* per property, how many times its function has been run
    observed,            \* per property, the values its reads have returned
    budget               \* per thread, the reads it may still start

confVars == <<polling_frequency, include_disk, juniper_model>>
callVars == <<callPc, callResult>>
cycleVars == <<pc, cached, oids_map, metrics_groups, sink, log, enrichment_group,
               enrichment_group_set, returned>>
threadVars == <<stack, lockOwner, lockCount, runs, observed, budget>>
readVars == <<cached, stack, lockOwner, lockCount, runs, observed, budget>>
vars == <<polling_frequency, include_disk, juniper_model, snmp, callPc, callResult,
          pc, cached, oids_map, metrics_groups, sink, log, enrichment_group,
          enrichment_group_set, returned, stack, lockOwner, lockCount, runs, observed,
          budget>>

----------------------------------------------------------------------------
(* Bounds of the model *)

\* longest configured polling_frequency string drawn
MaxFreqLen == 3

\* longest jnxOperatingTemp and jnxOperatingDescr walks drawn for _temp_sensors
MaxTempWalk == 2

\* longest jnxOperatingDescr walk drawn for _power_modules
MaxPowerWalk == 2

\* concurrent callers of one plugin instance
NThreads == 2

\* property reads each caller may start
MaxReads == 2

\* property reads each caller may start where every read is followed to its return
MaxFairReads == 1

\* distinct non-empty answers a walk may give (0 is the empty walk)
MaxWalkResult == 1

----------------------------------------------------------------------------
(* Python built-ins *)

Char(s, i) == SubSeq(s, i, i)

Digits == {"0", "1", "2", "3", "4", "5", "6", "7", "8", "9"}

DigitVal(c) ==
    CASE c = "0" -> 0 [] c = "1" -> 1 [] c = "2" -> 2 [] c = "3" -> 3
      [] c = "4" -> 4 [] c = "5" -> 5 [] c = "6" -> 6 [] c = "7" -> 7
      [] c = "8" -> 8 [] c = "9" -> 9

RECURSIVE DecimalValue(_)
DecimalValue(s) ==
    IF Len(s) = 0 THEN 0
    ELSE 10 * DecimalValue(SubSeq(s, 1, Len(s) - 1)) + DigitVal(Char(s, Len(s)))

AllDigits(s) == Len(s) > 0 /\ \A i \in 1..Len(s) : Char(s, i) \in Digits

\* int(x) of a str: an optional sign and decimal digits, ValueError otherwise
PyInt(s) ==
    IF AllDigits(s) THEN [exc |-> "none", val |-> DecimalValue(s)]
    ELSE IF Len(s) > 1 /\ Char(s, 1) = "-" /\ AllDigits(Tail(s))
         THEN [exc |-> "none", val |-> 0 - DecimalValue(Tail(s))]
    ELSE IF Len(s) > 1 /\ Char(s, 1) = "+" /\ AllDigits(Tail(s))
         THEN [exc |-> "none", val |-> DecimalValue(Tail(s))]
    ELSE [exc |-> "ValueError", val |-> 0]

----------------------------------------------------------------------------
(* MibJuniper OIDs, by name *)

jnxOperating1MinAvgCPU == "jnxOperating1MinAvgCPU"
jnxOperating5MinAvgCPU == "jnxOperating5MinAvgCPU"
jnxOperating15MinAvgCPU == "jnxOperating15MinAvgCPU"

\* _get_cpu_interval: the oid to walk for cpu utilization
get_cpu_interval(freq) ==
    LET f == PyInt(freq) IN
    IF f.exc # "none" THEN [exc |-> f.exc, val |-> "none"]
    ELSE IF 5 <= f.val /\ f.val < 300 THEN [exc |-> "none", val |-> jnxOperating1MinAvgCPU]
    ELSE IF 300 <= f.val /\ f.val < 900 THEN [exc |-> "none", val |-> jnxOperating5MinAvgCPU]
    ELSE IF 900 <= f.val THEN [exc |-> "none", val |-> jnxOperating15MinAvgCPU]
    ELSE [exc |-> "none", val |-> jnxOperating1MinAvgCPU]

----------------------------------------------------------------------------
(* dict and str helpers *)

EmptyDict == <<>>

\* d[k] = v
Put(d, k, v) == (k :> v) @@ d

StartsWith(s, p) == Len(s) >= Len(p) /\ SubSeq(s, 1, Len(p)) = p

Drop(s, n) == SubSeq(s, n + 1, Len(s))

\* sub in s
Contains(s, sub) ==
    \E i \in 1..(Len(s) - Len(sub) + 1) : SubSeq(s, i, i + Len(sub) - 1) = sub

UpperCase == "ABCDEFGHIJKLMNOPQRSTUVWXYZ"
LowerCase == "abcdefghijklmnopqrstuvwxyz"

LowerChar(c) ==
    IF \E i \in 1..26 : Char(UpperCase, i) = c
    THEN Char(LowerCase, CHOOSE i \in 1..26 : Char(UpperCase, i) = c)
    ELSE c

\* s.lower()
RECURSIVE Lower(_)
Lower(s) == IF Len(s) = 0 THEN "" ELSE LowerChar(Head(s)) \o Lower(Tail(s))

----------------------------------------------------------------------------
(* re.match: the pattern must match at the start of the string *)

IsDigit(s, i) == i <= Len(s) /\ Char(s, i) \in Digits

\* \w : a letter, a digit or _
WordChars ==
    Digits \cup {"_"} \cup {Char(UpperCase, k) : k \in 1..26} \cup {Char(LowerCase, k) : k \in 1..26}

IsWord(s, i) == i <= Len(s) /\ Char(s, i) \in WordChars

IsSpace(s, i) == i <= Len(s) /\ Char(s, i) \in {" ", "\t", "\n", "\r", "\f"}

\* number of leading digits of s (the greedy \d+)
RECURSIVE DigitRun(_)
DigitRun(s) == IF IsDigit(s, 1) THEN 1 + DigitRun(Tail(s)) ELSE 0

\* number of leading word characters of s (the greedy \w+)
RECURSIVE WordRun(_)
WordRun(s) == IF IsWord(s, 1) THEN 1 + WordRun(Tail(s)) ELSE 0

\* $ : the end of the string, or just before a newline that ends it
AtEnd(s) == Len(s) = 0 \/ s = "\n"

\* <lit>\d{1,2}$
MatchLitDigits12End(s, lit) ==
    /\ StartsWith(s, lit)
    /\ LET r == Drop(s, Len(lit)) IN
       \/ IsDigit(r, 1) /\ AtEnd(Drop(r, 1))
       \/ IsDigit(r, 1) /\ IsDigit(r, 2) /\ AtEnd(Drop(r, 2))

\* <lit>\d+<after>   (a digit is never the first character of <after>, so
\* the only split the backtracking search can accept is the whole digit run)
MatchLitDigitsLit(s, lit, after) ==
    /\ StartsWith(s, lit)
    /\ LET r == Drop(s, Len(lit)) IN
       DigitRun(r) >= 1 /\ StartsWith(Drop(r, DigitRun(r)), after)

\* node\d<rest>
MatchNodeDigit(s) == StartsWith(s, "node") /\ IsDigit(s, 5)

PDM_RE == "PDM \\d{1,2}$"
PEM_RE == "PEM"
PSM_RE == "PSM \\d{1,2}$"
POWER_SUPPLY_RE == "Power Supply \\d$"
POWER_SUPPLY_AT_RE == "Power Supply: Power Supply \\d+ @"
NODE_PEM_RE == "node\\d PEM \\d"

FAN_TRAY_FAN_RE == "Fan Tray \\d+ Fan \\d+"
FAN_TRAY_RE == "Fan Tray \\d+"
FAN_RE == "FAN \\d+"
NODE_SRX_FAN_RE == "node\\d SRX\\d+ \\w+ fan \\d"
NODE_FAN_RE == "node\\d Fan \\d"
NODE_TRAY_FAN_RE == "node\\d \\w+ Tray Fan \\d+"
TOP_BOTTOM_FAN_RE == "(Top|Bottom)\\s(Rear|Middle|Front)\\sFan"

re_match(pattern, name) ==
    CASE pattern = PDM_RE -> MatchLitDigits12End(name, "PDM ")
      [] pattern = PEM_RE -> StartsWith(name, "PEM")
      [] pattern = PSM_RE -> MatchLitDigits12End(name, "PSM ")
      [] pattern = POWER_SUPPLY_RE ->
            /\ StartsWith(name, "Power Supply ")
            /\ IsDigit(name, 14)
            /\ AtEnd(Drop(name, 14))
      [] pattern = POWER_SUPPLY_AT_RE ->
            MatchLitDigitsLit(name, "Power Supply: Power Supply ", " @")
      [] pattern = NODE_PEM_RE ->
            /\ MatchNodeDigit(name)
            /\ StartsWith(Drop(name, 5), " PEM ")
            /\ IsDigit(name, 11)
      [] pattern = FAN_TRAY_FAN_RE ->
            /\ MatchLitDigitsLit(name, "Fan Tray ", " Fan ")
            /\ LET r == Drop(name, 9) IN IsDigit(Drop(r, DigitRun(r)), 6)
      [] pattern = FAN_TRAY_RE -> MatchLitDigitsLit(name, "Fan Tray ", "")
      [] pattern = FAN_RE -> MatchLitDigitsLit(name, "FAN ", "")
      [] pattern = NODE_SRX_FAN_RE ->
            /\ MatchNodeDigit(name)
            /\ MatchLitDigitsLit(Drop(name, 5), " SRX", " ")
            /\ LET r == Drop(name, 9) IN
               LET w == Drop(r, DigitRun(r) + 1) IN
               /\ WordRun(w) >= 1
               /\ StartsWith(Drop(w, WordRun(w)), " fan ")
               /\ IsDigit(Drop(w, WordRun(w)), 6)
      [] pattern = NODE_FAN_RE ->
            /\ MatchNodeDigit(name)
            /\ StartsWith(Drop(name, 5), " Fan ")
            /\ IsDigit(name, 11)
      [] pattern = NODE_TRAY_FAN_RE ->
            /\ MatchNodeDigit(name)
            /\ StartsWith(Drop(name, 5), " ")
            /\ LET w == Drop(name, 6) IN
               /\ WordRun(w) >= 1
               /\ StartsWith(Drop(w, WordRun(w)), " Tray Fan ")
               /\ IsDigit(Drop(w, WordRun(w)), 11)
      [] pattern = TOP_BOTTOM_FAN_RE ->
            \E a \in {"Top", "Bottom"}, b \in {"Rear", "Middle", "Front"} :
                /\ StartsWith(name, a)
                /\ IsSpace(name, Len(a) + 1)
                /\ StartsWith(Drop(name, Len(a) + 1), b)
                /\ IsSpace(name, Len(a) + 1 + Len(b) + 1)
                /\ StartsWith(Drop(name, Len(a) + 1 + Len(b) + 1), "Fan")

FAN_TYPES == <<FAN_TRAY_FAN_RE, FAN_TRAY_RE, FAN_RE, NODE_SRX_FAN_RE, NODE_FAN_RE,
               NODE_TRAY_FAN_RE, TOP_BOTTOM_FAN_RE>>

POWER_MODULE_TYPES == <<PDM_RE, PEM_RE, PSM_RE, POWER_SUPPLY_RE, POWER_SUPPLY_AT_RE,
                        NODE_PEM_RE>>

\* dict(list(zip(keys, values)))
RECURSIVE ZipDict(_, _)
ZipDict(keys, values) ==
    IF Len(keys) = 0 \/ Len(values) = 0 THEN EmptyDict
    ELSE Put(ZipDict(SubSeq(keys, 1, Len(keys) - 1), SubSeq(values, 1, Len(keys) - 1)),
             keys[Len(keys)], values[Len(keys)])

TYPE_MAP == ZipDict(POWER_MODULE_TYPES, <<"PDM", "PEM", "PSM", "PEM", "PEM", "PEM">>)

----------------------------------------------------------------------------
(* MibJuniper and MibSNMPV2 subtrees, by name, and the walk adapter *)

jnxOperatingDescr == "jnxOperatingDescr"
jnxOperatingTemp == "jnxOperatingTemp"
jnxOperatingMemory == "jnxOperatingMemory"
hrStorageDescr == "hrStorageDescr"
hrStorageType == "hrStorageType"
hrStorageAllocationUnits == "hrStorageAllocationUnits"
hrStorageSize == "hrStorageSize"

\* self._snmp_connection.bulk_walk(oid): the varbinds the device holds under oid
bulk_walk(device, oid) == device[oid]

\* const.MELTING_POINT_STEEL
MELTING_POINT_STEEL == 2500

Ok(v) == [exc |-> "none", val |-> v]
Raise(e) == [exc |-> e, val |-> EmptyDict]

----------------------------------------------------------------------------
(* The memoized properties, as functions of what the device answers *)

RECURSIVE EntityLoop(_, _)
EntityLoop(varbinds, entities) ==
    IF Len(varbinds) = 0 THEN entities
    ELSE EntityLoop(Tail(varbinds),
                    Put(entities, Head(varbinds).index, Head(varbinds).value))

\* _entity_names
entity_names(device) == EntityLoop(bulk_walk(device, jnxOperatingDescr), EmptyDict)

\* the loop of _temp_sensors with the upper end of the range let in
RECURSIVE TempLoopInclusive(_, _, _)
TempLoopInclusive(varbinds, entities, temps) ==
    IF Len(varbinds) = 0 THEN Ok(temps)
    ELSE LET varbind == Head(varbinds)
             v == PyInt(varbind.value)
         IN  IF v.exc # "none" THEN Raise(v.exc)
             ELSE IF 0 < v.val /\ v.val <= MELTING_POINT_STEEL
             THEN IF varbind.index \in DOMAIN entities
                  THEN TempLoopInclusive(Tail(varbinds), entities,
                                         Put(temps, varbind.index,
                                             [sensor_name |-> entities[varbind.index]]))
                  ELSE Raise("KeyError")
             ELSE TempLoopInclusive(Tail(varbinds), entities, temps)

RECURSIVE TempLoop(_, _, _)
TempLoop(varbinds, entities, temps) ==
    IF Len(varbinds) = 0 THEN Ok(temps)
    ELSE LET varbind == Head(varbinds)
             v == PyInt(varbind.value)
         IN  IF v.exc # "none" THEN Raise(v.exc)
             ELSE IF 0 < v.val /\ v.val < MELTING_POINT_STEEL
             THEN IF varbind.index \in DOMAIN entities
                  THEN TempLoop(Tail(varbinds), entities,
                                Put(temps, varbind.index,
                                    [sensor_name |-> entities[varbind.index]]))
                  ELSE Raise("KeyError")
             ELSE TempLoop(Tail(varbinds), entities, temps)

\* _temp_sensors
temp_sensors(device) ==
    TempLoop(bulk_walk(device, jnxOperatingTemp), entity_names(device), EmptyDict)

CPU_TYPES == <<"routing engine", "fpc", "fpm", "cp", "pic", "fbc">>

RECURSIVE CpusLoop(_, _, _)
CpusLoop(varbinds, entities, cpus) ==
    IF Len(varbinds) = 0 THEN Ok(cpus)
    ELSE LET cpu_id == Head(varbinds).index IN
         IF cpu_id \notin DOMAIN entities THEN Raise("KeyError")
         ELSE IF \E k \in 1..Len(CPU_TYPES) : Contains(Lower(entities[cpu_id]), CPU_TYPES[k])
         THEN CpusLoop(Tail(varbinds), entities,
                       Put(cpus, cpu_id, [cpu_name |-> entities[cpu_id],
                                          cpu_no |-> "Module " \o cpu_id]))
         ELSE CpusLoop(Tail(varbinds), entities, cpus)

\* _cpus
cpus(device, freq) ==
    LET oid == get_cpu_interval(freq) IN
    IF oid.exc # "none" THEN Raise(oid.exc)
    ELSE CpusLoop(bulk_walk(device, oid.val), entity_names(device), EmptyDict)

RECURSIVE MemoryLoop(_, _)
MemoryLoop(varbinds, mem) ==
    IF Len(varbinds) = 0 THEN Ok(mem)
    ELSE LET v == PyInt(Head(varbinds).value) IN
         IF v.exc # "none" THEN Raise(v.exc)
         ELSE MemoryLoop(Tail(varbinds),
                         Put(mem, Head(varbinds).index, [memory_total |-> v.val * (2 ^ 20)]))

\* _memory
memory(device) == MemoryLoop(bulk_walk(device, jnxOperatingMemory), EmptyDict)

\* _fans: every catalog entry whose name some pattern of FAN_TYPES matches
fans(device) ==
    LET entities == entity_names(device) IN
    [index \in {i \in DOMAIN entities :
                    \E k \in 1..Len(FAN_TYPES) : re_match(FAN_TYPES[k], entities[i])}
        |-> [name |-> entities[index]]]

NoModule == [present |-> FALSE, name |-> "", type |-> ""]

\* a loop over POWER_MODULE_TYPES that stops after the first pattern of the list
RECURSIVE PowerTypeLoopFirstOnly(_, _, _)
PowerTypeLoopFirstOnly(name, k, entry) ==
    IF k > 1 THEN entry
    ELSE PowerTypeLoopFirstOnly(name, k + 1,
            IF re_match(POWER_MODULE_TYPES[k], name)
            THEN [present |-> TRUE, name |-> name, type |-> TYPE_MAP[POWER_MODULE_TYPES[k]]]
            ELSE entry)

\* the loop over POWER_MODULE_TYPES for one name: every pattern is tried, in
\* order, and each match assigns the entry again
RECURSIVE PowerTypeLoop(_, _, _)
PowerTypeLoop(name, k, entry) ==
    IF k > Len(POWER_MODULE_TYPES) THEN entry
    ELSE PowerTypeLoop(name, k + 1,
            IF re_match(POWER_MODULE_TYPES[k], name)
            THEN [present |-> TRUE, name |-> name, type |-> TYPE_MAP[POWER_MODULE_TYPES[k]]]
            ELSE entry)

\* _power_modules
power_modules(device) ==
    LET entities == entity_names(device)
        module(i) == PowerTypeLoop(entities[i], 1, NoModule)
    IN  [index \in {i \in DOMAIN entities : module(i).present}
            |-> [name |-> module(index).name, type |-> module(index).type]]

\* decode_bytes(value).split(".")[-1]
RECURSIVE LastComponent(_)
LastComponent(s) ==
    IF ~Contains(s, ".") THEN s
    ELSE LastComponent(Drop(s, CHOOSE i \in 1..Len(s) : Char(s, i) = "."))

map_var_to_storage ==
    [c \in {"1", "2", "3", "4", "5", "6", "7", "8", "9", "10"} |->
        CASE c = "1" -> "hrStorageOther"
          [] c = "2" -> "hrStorageRam"
          [] c = "3" -> "hrStorageVirtualMemory"
          [] c = "4" -> "hrStorageFixedDisk"
          [] c = "5" -> "hrStorageRemovableDisk"
          [] c = "6" -> "hrStorageFloppyDisk"
          [] c = "7" -> "hrStorageCompactDisc"
          [] c = "8" -> "hrStorageRamDisk"
          [] c = "9" -> "hrStorageFlashMemory"
          [] c = "10" -> "hrStorageNetworkDisk"]

\* _storage_descriptions
storage_descriptions(device) == EntityLoop(bulk_walk(device, hrStorageDescr), EmptyDict)

RECURSIVE StorageTypeLoop(_, _)
StorageTypeLoop(varbinds, types) ==
    IF Len(varbinds) = 0 THEN types
    ELSE LET code == LastComponent(Head(varbinds).value) IN
         StorageTypeLoop(Tail(varbinds),
            Put(types, Head(varbinds).index,
                IF code \in DOMAIN map_var_to_storage THEN map_var_to_storage[code]
                ELSE "unknown"))

\* _storage_type
storage_type(device) == StorageTypeLoop(bulk_walk(device, hrStorageType), EmptyDict)

RECURSIVE AllocationLoop(_, _)
AllocationLoop(varbinds, sizes) ==
    IF Len(varbinds) = 0 THEN Ok(sizes)
    ELSE LET v == PyInt(Head(varbinds).value) IN
         IF v.exc # "none" THEN Raise(v.exc)
         ELSE AllocationLoop(Tail(varbinds), Put(sizes, Head(varbinds).index, v.val))

\* _storage_allocation_units
storage_allocation_units(device) ==
    AllocationLoop(bulk_walk(device, hrStorageAllocationUnits), EmptyDict)

RECURSIVE SizeLoop(_, _, _)
SizeLoop(varbinds, allocation_units, sizes) ==
    IF Len(varbinds) = 0 THEN Ok(sizes)
    ELSE LET varbind == Head(varbinds) IN
         IF varbind.index \in DOMAIN allocation_units
         THEN LET v == PyInt(varbind.value) IN
              IF v.exc # "none" THEN Raise(v.exc)
              ELSE SizeLoop(Tail(varbinds), allocation_units,
                            Put(sizes, varbind.index, v.val * allocation_units[varbind.index]))
         ELSE SizeLoop(Tail(varbinds), allocation_units, sizes)

\* _storage_size
storage_size(device) ==
    LET allocation_units == storage_allocation_units(device) IN
    IF allocation_units.exc # "none" THEN Raise(allocation_units.exc)
    ELSE SizeLoop(bulk_walk(device, hrStorageSize), allocation_units.val, EmptyDict)

----------------------------------------------------------------------------
(* threaded_cached_property, as one thread sees it: the function of a      *)
(* property runs on the first read and its value is kept in __dict__       *)

\* the function behind each property
Compute(p, device, freq) ==
    CASE p = "_entity_names" -> Ok(entity_names(device))
      [] p = "_temp_sensors" -> temp_sensors(device)
      [] p = "_cpus" -> cpus(device, freq)
      [] p = "_memory" -> memory(device)
      [] p = "_fans" -> Ok(fans(device))
      [] p = "_power_modules" -> Ok(power_modules(device))
      [] p = "_storage_descriptions" -> Ok(storage_descriptions(device))
      [] p = "_storage_type" -> Ok(storage_type(device))
      [] p = "_storage_allocation_units" -> storage_allocation_units(device)
      [] p = "_storage_size" -> storage_size(device)

\* the properties the function of p reads while it runs
NestedReads(p, device, freq) ==
    CASE p = "_temp_sensors" ->
            IF \E k \in 1..Len(bulk_walk(device, jnxOperatingTemp)) :
                  LET v == PyInt(bulk_walk(device, jnxOperatingTemp)[k].value) IN
                  v.exc = "none" /\ 0 < v.val /\ v.val < MELTING_POINT_STEEL
            THEN {"_entity_names"} ELSE {}
      [] p = "_cpus" ->
            IF /\ get_cpu_interval(freq).exc = "none"
               /\ Len(bulk_walk(device, get_cpu_interval(freq).val)) > 0
            THEN {"_entity_names"} ELSE {}
      [] p \in {"_fans", "_power_modules"} -> {"_entity_names"}
      [] p = "_storage_size" -> {"_storage_allocation_units"}
      [] OTHER -> {}

\* the memoized properties of the class
Props ==
    {"_entity_names", "_temp_sensors", "_cpus", "_memory", "_fans", "_power_modules",
     "_storage_descriptions", "_storage_type", "_storage_allocation_units", "_storage_size"}

\* the properties of props read one after the other, up to the first whose
\* function raises, given the outcome of each property's function and the
\* properties it reads while it runs: the exception, the place in props it
\* came from, and __dict__ afterwards
ReadEach(results, nested, cache, props) ==
    LET bad == {k \in 1..Len(props) :
                   props[k] \notin DOMAIN cache /\ results[props[k]].exc # "none"}
        n == IF bad = {} THEN Len(props) + 1 ELSE CHOOSE k \in bad : \A j \in bad : k <= j
        done == {props[k] : k \in 1..(n - 1)}
        begun == {props[k] : k \in {j \in 1..Len(props) : j <= n}}
        inner == {q \in UNION {nested[q] : q \in begun \ DOMAIN cache} :
                     results[q].exc = "none"}
    IN  [exc |-> IF n > Len(props) THEN "none" ELSE results[props[n]].exc,
         failed |-> n,
         cache |-> [q \in (DOMAIN cache) \cup done \cup inner |->
                       IF q \in DOMAIN cache THEN cache[q] ELSE results[q].val]]

\* self.<p> for each p of props, in order
ReadAll(cache, props, device, freq) ==
    ReadEach([q \in Props |-> Compute(q, device, freq)],
             [q \in Props |-> NestedReads(q, device, freq)], cache, props)

----------------------------------------------------------------------------
(* _build_oids_map *)

jnxOperatingCPU == "jnxOperatingCPU"
jnxOperatingBuffer == "jnxOperatingBuffer"
jnxOperatingState == "jnxOperatingState"
hrStorageAllocationFailures == "hrStorageAllocationFailures"
hrStorageUsed == "hrStorageUsed"

Static(values) == [method |-> "static", values |-> values]
Walked(oid) == [method |-> "bulk_walk", oid |-> oid]

Range(d) == {d[x] : x \in DOMAIN d}

\* d.update(other)
Update(d, other) == other @@ d

\* dict(collections.Counter([...type of each power module...]))
TypeCounter(modules) ==
    [t \in {modules[x].type : x \in DOMAIN modules} |->
        Cardinality({x \in DOMAIN modules : modules[x].type = t})]

\* plugin_conf.get('metrics_group', {}).get('include_disk_metrics_group', 0), as a condition
DiskMetricsEnabled(flag) == (IF flag.present THEN flag.value ELSE 0) # 0

BaseOidNames ==
    {"cpu_name", "cpu_no", "cpu_util", "memory_used", "memory_total", "oper_status",
     "fans", "power_modules", "power_module_types", "power_units_total",
     "temp_sensor_values", "temp_sensor_name"}

\* the storage block with one of its fields left out
StorageOidNamesShort ==
    {"storage_description", "storage_type", "storage_allocation_failures",
     "storage_used_bytes", "storage_total_bytes"}

StorageOidNames ==
    {"storage_description", "storage_type", "storage_allocation_failures",
     "storage_allocation_units", "storage_used_bytes", "storage_total_bytes"}

\* the dict literal of lines 234-285, from the memoized properties
BaseOids(c, freq, model) ==
    [name \in BaseOidNames |->
        CASE name = "cpu_name" ->
                Static([x \in DOMAIN c["_cpus"] |-> c["_cpus"][x].cpu_name])
          [] name = "cpu_no" ->
                Static([x \in DOMAIN c["_cpus"] |-> c["_cpus"][x].cpu_no])
          [] name = "cpu_util" ->
                Walked(IF Contains(model, "EX4300") THEN jnxOperatingCPU
                       ELSE get_cpu_interval(freq).val)
          [] name = "memory_used" -> Walked(jnxOperatingBuffer)
          [] name = "memory_total" ->
                Static([x \in {y \in DOMAIN c["_memory"] : c["_memory"][y].memory_total # 0}
                            |-> c["_memory"][x].memory_total])
          [] name = "oper_status" -> Walked(jnxOperatingState)
          [] name = "fans" ->
                Static([x \in DOMAIN c["_fans"] |-> c["_fans"][x].name])
          [] name = "power_modules" ->
                Static([x \in DOMAIN c["_power_modules"] |-> c["_power_modules"][x].name])
          [] name = "power_module_types" ->
                Static([x \in DOMAIN c["_power_modules"] |-> c["_power_modules"][x].type])
          [] name = "power_units_total" -> Static(TypeCounter(c["_power_modules"]))
          [] name = "temp_sensor_values" -> Walked(jnxOperatingTemp)
          [] name = "temp_sensor_name" ->
                Static([x \in DOMAIN c["_temp_sensors"] |-> c["_temp_sensors"][x].sensor_name])]

\* the dict literal of lines 289-314
StorageOids(c) ==
    [name \in StorageOidNames |->
        CASE name = "storage_description" -> Static(c["_storage_descriptions"])
          [] name = "storage_type" -> Static(c["_storage_type"])
          [] name = "storage_allocation_failures" -> Walked(hrStorageAllocationFailures)
          [] name = "storage_allocation_units" -> Static(c["_storage_allocation_units"])
          [] name = "storage_used_bytes" -> Walked(hrStorageUsed)
          [] name = "storage_total_bytes" -> Static(c["_storage_size"])]

\* _add_power_module_types_mapping
add_power_module_types_mapping(oids) ==
    [oids EXCEPT !["power_module_types"].values =
        Update(@, [t \in Range(@) |-> t])]

\* the memoized properties _build_oids_map reads, in the order it reads them
BaseReads == <<"_cpus", "_memory", "_fans", "_power_modules", "_temp_sensors">>

StorageReads ==
    <<"_storage_descriptions", "_storage_type", "_storage_allocation_units", "_storage_size">>

OidsMapReads(flag) == IF DiskMetricsEnabled(flag) THEN BaseReads \o StorageReads ELSE BaseReads

\* _build_oids_map, once the properties it reads are in c: self._oids_map
build_oids_map(c, freq, flag, model) ==
    add_power_module_types_mapping(
        IF DiskMetricsEnabled(flag) THEN Update(BaseOids(c, freq, model), StorageOids(c))
        ELSE BaseOids(c, freq, model))

----------------------------------------------------------------------------
(* _build_metrics_groups_conf *)

TemperatureGroup ==
    [group_name |-> "environment",
     dimensions |-> [sensor |-> "temp_sensor_name.$index"],
     metrics |->
        [temperature_fahrenheit |->
            [metric_type |-> "gauge",
             type |-> "float",
             transform |-> "lambda x: round((x * 1.8) + 32, 2) if x != 0 else 0.0",
             value |-> "temp_sensor_values.$index"]]]

CpuGroup ==
    [group_name |-> "cpu",
     dimensions |->
        [cpu_name |-> "cpu_name.$index",
         cpu_no |-> "cpu_no.$index",
         cpu_type |-> "'data' if 'Routing Engine' in cpu_name.$index else 'ctrl'"],
     metrics |->
        [cpu_utilization |-> [metric_type |-> "gauge", value |-> "cpu_util.$index"]]]

MemoryGroup ==
    [group_name |-> "memory",
     dimensions |-> [memory_type |-> "cpu_name.$index"],
     metrics |->
        [memory_used |->
            [metric_type |-> "gauge",
             indices_from |-> "memory_total",
             value |-> "float(memory_used.$index) / 100.0 * memory_total.$index"],
         memory_total |-> [metric_type |-> "gauge", value |-> "memory_total.$index"]]]

PowerGroup ==
    [group_name |-> "environment",
     dimensions |-> [power_module_type |-> "power_module_types.$index"],
     metrics |->
        [power_units_on |->
            [metric_type |-> "gauge",
             indices_from |-> "power_units_total",
             value |-> "len([(x,y) for (x,y) in oper_status.items() if x in "
                       \o "power_module_types and y not in "
                       \o "['6'] and power_module_types[x] == $index])"],
         power_units_total |->
            [metric_type |-> "gauge", value |-> "power_units_total.$index"]]]

FanGroup(fans_total) ==
    [group_name |-> "environment",
     dimensions |-> EmptyDict,
     metrics |->
        [fans_ok |->
            [metric_type |-> "gauge",
             value |-> "len([(x,y) for (x,y) in oper_status.items() if x in fans and y not in ['6']])"],
         fans_total |-> [literal |-> fans_total]]]

DiskGroup ==
    [group_name |-> "disk",
     dimensions |->
        [storage_description |-> "storage_description.$index",
         storage_type |-> "storage_type.$index"],
     metrics |->
        [storage_allocation_failures |->
            [metric_type |-> "counter", value |-> "storage_allocation_failures.$index"],
         storage_used_bytes |->
            [metric_type |-> "gauge",
             value |-> "int(storage_used_bytes.$index) * int(storage_allocation_units.$index)"],
         storage_total_bytes |->
            [metric_type |-> "gauge", value |-> "storage_total_bytes.$index"]]]

\* the conditional groups with the disk group on either condition alone
ConditionalGroupsDiskEither(c, flag) ==
    (IF Cardinality(DOMAIN c["_power_modules"]) > 0 THEN <<PowerGroup>> ELSE <<>>)
    \o (IF Cardinality(DOMAIN c["_fans"]) > 0
        THEN <<FanGroup(Cardinality(DOMAIN c["_fans"]))>> ELSE <<>>)
    \o (IF Cardinality(DOMAIN c["_storage_descriptions"]) > 0 \/ DiskMetricsEnabled(flag)
        THEN <<DiskGroup>> ELSE <<>>)

\* the conditional groups with the fan group only from the second fan on
ConditionalGroupsFanSecond(c, flag) ==
    (IF Cardinality(DOMAIN c["_power_modules"]) > 0 THEN <<PowerGroup>> ELSE <<>>)
    \o (IF Cardinality(DOMAIN c["_fans"]) > 1
        THEN <<FanGroup(Cardinality(DOMAIN c["_fans"]))>> ELSE <<>>)
    \o (IF Cardinality(DOMAIN c["_storage_descriptions"]) > 0 /\ DiskMetricsEnabled(flag)
        THEN <<DiskGroup>> ELSE <<>>)

\* the groups appended after the three that are always there (lines 369-431)
ConditionalGroups(c, flag) ==
    (IF Cardinality(DOMAIN c["_power_modules"]) > 0 THEN <<PowerGroup>> ELSE <<>>)
    \o (IF Cardinality(DOMAIN c["_fans"]) > 0
        THEN <<FanGroup(Cardinality(DOMAIN c["_fans"]))>> ELSE <<>>)
    \o (IF Cardinality(DOMAIN c["_storage_descriptions"]) > 0 /\ DiskMetricsEnabled(flag)
        THEN <<DiskGroup>> ELSE <<>>)

\* the memoized properties _build_metrics_groups_conf reads
GroupsReads == <<"_power_modules", "_fans", "_storage_descriptions">>

\* _build_metrics_groups_conf, once the properties it reads are in c: self._metrics_groups
build_metrics_groups_conf(c, flag) ==
    <<TemperatureGroup, CpuGroup, MemoryGroup>> \o ConditionalGroups(c, flag)

----------------------------------------------------------------------------
(* get_enrichment, from the call of add_enrichment_set to the return *)

device_fqdn == "device"

ErrorRecord(e) == [level |-> "error", text |-> "Error while adding enrichment set", exc |-> e]
DebugRecord == [level |-> "debug", text |-> "Metrics enrichment for device"]

\* get_enrichment with no handler around add_enrichment_set
emitPropagating(oids, groups, answer) ==
    LET enrichment_set == [oids |-> oids, metrics_groups |-> groups]
        group == {[key |-> device_fqdn, value |-> enrichment_set]}
    IN  IF answer = "accepted"
        THEN [pc |-> "done", log |-> <<DebugRecord>>, enrichment_group |-> group,
              enrichment_group_set |-> {group}, returned |-> {group}]
        ELSE [pc |-> "raised", log |-> <<>>, enrichment_group |-> {},
              enrichment_group_set |-> {}, returned |-> answer]

\* lines 443-458: answer is what add_enrichment_set does with the enrichment set
emit(oids, groups, answer) ==
    LET enrichment_set == [oids |-> oids, metrics_groups |-> groups]
        group == IF answer = "accepted"
                 THEN {[key |-> device_fqdn, value |-> enrichment_set]}
                 ELSE {}
    IN  [pc |-> "done",
         log |-> IF answer = "accepted" THEN <<DebugRecord>>
                 ELSE <<ErrorRecord(answer), DebugRecord>>,
         enrichment_group |-> group,
         enrichment_group_set |-> {group},
         returned |-> {group}]

----------------------------------------------------------------------------
(* Inputs *)

RECURSIVE StringsUpTo(_, _)
StringsUpTo(alphabet, n) ==
    IF n = 0 THEN {""}
    ELSE LET shorter == StringsUpTo(alphabet, n - 1)
         IN  shorter \cup {s \o c : s \in shorter, c \in alphabet}

FreqAlphabet == {"0", "2", "3", "4", "5", "8", "9", "-", "a"}
FreqInputs == StringsUpTo(FreqAlphabet, MaxFreqLen)

Varbind(i, v) == [index |-> i, value |-> v]

RECURSIVE WalksUpTo(_, _)
WalksUpTo(varbinds, n) ==
    IF n = 0 THEN {<<>>}
    ELSE LET shorter == WalksUpTo(varbinds, n - 1)
         IN  shorter \cup {Append(w, vb) : w \in shorter, vb \in varbinds}

\* a device that answers every walk with nothing
EmptyDevice ==
    [oid \in {jnxOperatingDescr, jnxOperatingTemp, jnxOperating1MinAvgCPU,
              jnxOperating5MinAvgCPU, jnxOperating15MinAvgCPU, jnxOperatingMemory,
              hrStorageDescr, hrStorageType, hrStorageAllocationUnits, hrStorageSize}
        |-> <<>>]

Threads == 1..NThreads

\* no thread is reading a property
NoThreads ==
    /\ stack = [t \in Threads |-> <<>>]
    /\ lockOwner = [p \in Props |-> 0]
    /\ lockCount = [p \in Props |-> 0]
    /\ runs = [p \in Props |-> 0]
    /\ observed = [p \in Props |-> {}]
    /\ budget = [t \in Threads |-> 0]

\* the plugin before get_enrichment is called
CycleStart ==
    /\ pc = "start"
    /\ cached = EmptyDict
    /\ oids_map = EmptyDict
    /\ metrics_groups = <<>>
    /\ sink = "idle"
    /\ log = <<>>
    /\ enrichment_group = {}
    /\ enrichment_group_set = {}
    /\ returned = "none"


\* jnxOperatingTemp readings around the two ends of the accepted range
TempReadings == {"-1", "0", "1", "2499", "2500", "2501"}
TempVarbinds == {Varbind(i, v) : i \in {"1", "2"}, v \in TempReadings}
TempDescrVarbinds == {Varbind(i, n) : i \in {"1", "2"}, n \in {"Routing Engine 0", "FPC 0"}}

\* jnxOperatingDescr names around the patterns of POWER_MODULE_TYPES
PowerNames ==
    {"PDM 1", "PDM 12", "PDM 123", "PDM 1\n", "PDM", "PEM 0", "PEM", "PEMX", "xPEM 0",
     "PSM 3", "PSM 3 x", "Power Supply 1", "Power Supply 12",
     "Power Supply: Power Supply 1 @ 0/0/0", "Power Supply: Power Supply  @",
     "node0 PEM 1", "node PEM 1", "Fan Tray 1 Fan 2", "Routing Engine 0 CPU"}
PowerDescrVarbinds == {Varbind(i, n) : i \in {"1", "2"}, n \in PowerNames}

----------------------------------------------------------------------------
(* One call of _get_cpu_interval on a configured polling frequency *)

InitSel ==
    /\ polling_frequency \in FreqInputs
    /\ include_disk = "absent"
    /\ juniper_model = "unknown"
    /\ snmp = EmptyDevice
    /\ callPc = "init"
    /\ callResult = "none"
    /\ CycleStart
    /\ NoThreads

CallGetCpuInterval ==
    /\ callPc = "init"
    /\ LET r == get_cpu_interval(polling_frequency) IN
       /\ callPc' = IF r.exc = "none" THEN "returned" ELSE "raised"
       /\ callResult' = IF r.exc = "none" THEN r.val ELSE r.exc
    /\ UNCHANGED <<confVars, snmp, cycleVars, threadVars>>

NextSel == CallGetCpuInterval

SpecSel == InitSel /\ [][NextSel]_vars

----------------------------------------------------------------------------
(* C1: for every configured polling frequency p, _get_cpu_interval returns *)
(* one of the three averaged-CPU OIDs: the 1-minute OID when 5 <= p < 300, *)
(* the 5-minute OID when 300 <= p < 900, the 15-minute OID when p >= 900,  *)
(* and the 1-minute OID for p < 5 and for any non-positive or invalid      *)
(* input.                                                                  *)
C1_SelectorBands ==
    callPc # "init" =>
        LET p == PyInt(polling_frequency) IN
        /\ callPc = "returned"
        /\ callResult =
              IF p.exc = "none" /\ 5 <= p.val /\ p.val < 300 THEN jnxOperating1MinAvgCPU
              ELSE IF p.exc = "none" /\ 300 <= p.val /\ p.val < 900 THEN jnxOperating5MinAvgCPU
              ELSE IF p.exc = "none" /\ 900 <= p.val THEN jnxOperating15MinAvgCPU
              ELSE jnxOperating1MinAvgCPU

----------------------------------------------------------------------------
(* One call of _temp_sensors on a device *)

InitTemp ==
    /\ polling_frequency = "60"
    /\ include_disk = "absent"
    /\ juniper_model = "unknown"
    /\ \E descr \in WalksUpTo(TempDescrVarbinds, MaxTempWalk),
          temp \in WalksUpTo(TempVarbinds, MaxTempWalk) :
          snmp = [EmptyDevice EXCEPT ![jnxOperatingDescr] = descr,
                                     ![jnxOperatingTemp] = temp]
    /\ callPc = "init"
    /\ callResult = "none"
    /\ CycleStart
    /\ NoThreads

CallTempSensors ==
    /\ callPc = "init"
    /\ LET r == temp_sensors(snmp) IN
       /\ callPc' = IF r.exc = "none" THEN "returned" ELSE "raised"
       /\ callResult' = IF r.exc = "none" THEN r.val ELSE r.exc
    /\ UNCHANGED <<confVars, snmp, cycleVars, threadVars>>

NextTemp == CallTempSensors

SpecTemp == InitTemp /\ [][NextTemp]_vars

WalkIndices(walk) == {walk[k].index : k \in 1..Len(walk)}

\* the value of the last varbind of the walk at index i
LastValue(walk, i) ==
    walk[CHOOSE k \in 1..Len(walk) :
            walk[k].index = i /\ \A j \in (k + 1)..Len(walk) : walk[j].index # i].value

(* C7: for every temperature walk whose indices are all in the entity      *)
(* catalog, an index is in the temperature-sensor set iff the walk has a   *)
(* reading v at that index with 0 < v < MELTING_POINT_STEEL (0 and the     *)
(* bound itself are excluded), and each kept sensor carries the catalog    *)
(* name of the same index.                                                 *)
C7_TempSensorRange ==
    LET temp == snmp[jnxOperatingTemp]
        descr == snmp[jnxOperatingDescr]
    IN  (callPc # "init" /\ WalkIndices(temp) \subseteq WalkIndices(descr)) =>
            /\ callPc = "returned"
            /\ DOMAIN callResult =
                  {i \in WalkIndices(temp) :
                      \E k \in 1..Len(temp) :
                          /\ temp[k].index = i
                          /\ 0 < PyInt(temp[k].value).val
                          /\ PyInt(temp[k].value).val < MELTING_POINT_STEEL}
            /\ \A i \in DOMAIN callResult :
                  callResult[i] = [sensor_name |-> LastValue(descr, i)]

\* a walk with a reading of 0 and a reading of the bound, both left out,
\* beside a reading just under the bound, kept
C7_Witness ==
    /\ callPc = "returned"
    /\ snmp[jnxOperatingTemp] = <<Varbind("1", "2500"), Varbind("2", "2499")>>
    /\ DOMAIN callResult = {"2"}

----------------------------------------------------------------------------
(* One call of _power_modules on a device *)

InitPower ==
    /\ polling_frequency = "60"
    /\ include_disk = "absent"
    /\ juniper_model = "unknown"
    /\ \E descr \in WalksUpTo(PowerDescrVarbinds, MaxPowerWalk) :
          snmp = [EmptyDevice EXCEPT ![jnxOperatingDescr] = descr]
    /\ callPc = "init"
    /\ callResult = "none"
    /\ CycleStart
    /\ NoThreads

CallPowerModules ==
    /\ callPc = "init"
    /\ callPc' = "returned"
    /\ callResult' = power_modules(snmp)
    /\ UNCHANGED <<confVars, snmp, cycleVars, threadVars>>

NextPower == CallPowerModules

SpecPower == InitPower /\ [][NextPower]_vars

Matching(name) == {k \in 1..Len(POWER_MODULE_TYPES) : re_match(POWER_MODULE_TYPES[k], name)}

FirstMatching(name) == CHOOSE k \in Matching(name) : \A j \in Matching(name) : k <= j

(* C9: for every catalog entry the power-module classifier takes the       *)
(* patterns of POWER_MODULE_TYPES in declaration order and the first match *)
(* wins: the entry is a power module iff some pattern prefix-matches its   *)
(* name, and its type is the one TYPE_MAP gives the first pattern of the   *)
(* list that matches, so each index gets exactly one type.                 *)
C9_FirstPatternWins ==
    callPc = "returned" =>
        LET descr == snmp[jnxOperatingDescr] IN
        /\ DOMAIN callResult =
              {i \in WalkIndices(descr) : Matching(LastValue(descr, i)) # {}}
        /\ \A i \in DOMAIN callResult :
              /\ callResult[i].name = LastValue(descr, i)
              /\ callResult[i].type =
                    TYPE_MAP[POWER_MODULE_TYPES[FirstMatching(LastValue(descr, i))]]

\* a catalog with a PSM, a module named by the fourth pattern, typed PEM
C9_Witness ==
    /\ callPc = "returned"
    /\ DOMAIN callResult = {"1", "2"}
    /\ callResult["1"] = [name |-> "PSM 3", type |-> "PSM"]
    /\ callResult["2"] = [name |-> "Power Supply 1", type |-> "PEM"]

----------------------------------------------------------------------------
(* One poll cycle: get_enrichment on a device *)

\* the catalog of a small chassis: two CPUs, a fan and a power entry module
ChassisDescr ==
    <<Varbind("1", "Routing Engine 0 CPU"), Varbind("2", "FPC 0 CPU"),
      Varbind("3", "Fan Tray 1 Fan 2"), Varbind("4", "PEM 0")>>

DescrWalks == {<<>>, ChassisDescr, <<Varbind("1", "Routing Engine 0 CPU")>>}
TempWalks == {<<>>, <<Varbind("1", "40")>>, <<Varbind("1", "0"), Varbind("2", "2500")>>}
CpuWalks == {<<>>, <<Varbind("1", "5"), Varbind("2", "7")>>}
MemoryWalks == {<<>>, <<Varbind("1", "1024"), Varbind("2", "0")>>}
StorageDescrWalks == {<<>>, <<Varbind("7", "/dev/gpt/junos"), Varbind("8", "/var")>>}

\* hrStorageType, hrStorageAllocationUnits and hrStorageSize of a device, together
StorageTables ==
    {[type |-> <<>>, units |-> <<>>, size |-> <<>>],
     [type |-> <<Varbind("7", ".1.3.6.1.2.1.25.2.1.4"), Varbind("8", ".1.3.6.1.2.1.25.2.1.99")>>,
      units |-> <<Varbind("8", "4096")>>,
      size |-> <<Varbind("7", "100"), Varbind("8", "200")>>]}

DiskFlags ==
    {[present |-> FALSE, value |-> 0], [present |-> TRUE, value |-> 0],
     [present |-> TRUE, value |-> 1]}

Init ==
    /\ polling_frequency \in {"60", "300", "900"}
    /\ include_disk \in DiskFlags
    /\ juniper_model \in {"unknown", "EX4300-48T"}
    /\ \E descr \in DescrWalks, temp \in TempWalks, cpu \in CpuWalks, mem \in MemoryWalks,
          sdescr \in StorageDescrWalks, st \in StorageTables :
          snmp = [EmptyDevice EXCEPT ![jnxOperatingDescr] = descr,
                                     ![jnxOperatingTemp] = temp,
                                     ![jnxOperating1MinAvgCPU] = cpu,
                                     ![jnxOperating5MinAvgCPU] = cpu,
                                     ![jnxOperating15MinAvgCPU] = cpu,
                                     ![jnxOperatingMemory] = mem,
                                     ![hrStorageDescr] = sdescr,
                                     ![hrStorageType] = st.type,
                                     ![hrStorageAllocationUnits] = st.units,
                                     ![hrStorageSize] = st.size]
    /\ callPc = "none"
    /\ callResult = "none"
    /\ CycleStart
    /\ NoThreads

\* get_enrichment up to the end of _build_oids_map
BuildOidsMap ==
    /\ pc = "start"
    /\ \E r \in {ReadAll(cached, OidsMapReads(include_disk), snmp, polling_frequency)} :
       /\ pc' = IF r.exc = "none" THEN "oids" ELSE "raised"
       /\ cached' = r.cache
       /\ returned' = IF r.exc = "none" THEN returned ELSE r.exc
       /\ oids_map' =
             IF r.exc = "none"
             THEN build_oids_map(cached', polling_frequency, include_disk, juniper_model)
             ELSE IF r.failed > Len(BaseReads)
             THEN BaseOids(cached', polling_frequency, juniper_model)
             ELSE oids_map
    /\ UNCHANGED <<confVars, snmp, callVars, metrics_groups, sink, log, enrichment_group,
                   enrichment_group_set, threadVars>>

\* _build_metrics_groups_conf
BuildMetricsGroupsConf ==
    /\ pc = "oids"
    /\ \E r \in {ReadAll(cached, GroupsReads, snmp, polling_frequency)} :
       /\ pc' = IF r.exc = "none" THEN "groups" ELSE "raised"
       /\ cached' = r.cache
       /\ returned' = IF r.exc = "none" THEN returned ELSE r.exc
       /\ metrics_groups' =
             IF r.exc = "none" THEN build_metrics_groups_conf(cached', include_disk)
             ELSE <<TemperatureGroup, CpuGroup, MemoryGroup>>
    /\ UNCHANGED <<confVars, snmp, callVars, oids_map, sink, log, enrichment_group,
                   enrichment_group_set, threadVars>>

\* the rest of get_enrichment; the enrichment group accepts the set or raises
AddEnrichmentSet(answer) ==
    /\ pc = "groups"
    /\ sink' = answer
    /\ LET r == emit(oids_map, metrics_groups, answer) IN
       /\ pc' = r.pc
       /\ log' = r.log
       /\ enrichment_group' = r.enrichment_group
       /\ enrichment_group_set' = r.enrichment_group_set
       /\ returned' = r.returned
    /\ UNCHANGED <<confVars, snmp, callVars, cached, oids_map, metrics_groups, threadVars>>

Next ==
    \/ BuildOidsMap
    \/ BuildMetricsGroupsConf
    \/ \E answer \in {"accepted", "Exception"} : AddEnrichmentSet(answer)

Spec == Init /\ [][Next]_vars

----------------------------------------------------------------------------
(* The OID-map fields an expression names *)

\* the names of the expression from position i on that are neither inside a
\* '...' literal, nor an attribute (.items), nor the $index placeholder, nor
\* part of a number
RECURSIVE ScanNames(_, _, _)
ScanNames(s, i, quoted) ==
    IF i > Len(s) THEN {}
    ELSE IF Char(s, i) = "'" THEN ScanNames(s, i + 1, ~quoted)
    ELSE IF quoted \/ ~IsWord(s, i) THEN ScanNames(s, i + 1, quoted)
    ELSE LET n == WordRun(Drop(s, i - 1)) IN
         (IF ~IsDigit(s, i) /\ (i = 1 \/ Char(s, i - 1) \notin {".", "$"})
          THEN {SubSeq(s, i, i + n - 1)} ELSE {})
         \cup ScanNames(s, i + n, quoted)

Names(s) == ScanNames(s, 1, FALSE)

\* Python's own words in the expressions, and the variables of their comprehensions
PythonWords == {"len", "for", "in", "if", "and", "not", "else", "float", "int", "x", "y"}

FieldRefs(expr) == Names(expr) \ PythonWords

GroupRefs(g) ==
    UNION {FieldRefs(g.dimensions[d]) : d \in DOMAIN g.dimensions}
    \cup UNION {IF "value" \in DOMAIN g.metrics[m] THEN FieldRefs(g.metrics[m].value) ELSE {}
                    : m \in DOMAIN g.metrics}
    \cup UNION {IF "indices_from" \in DOMAIN g.metrics[m] THEN {g.metrics[m].indices_from}
                ELSE {} : m \in DOMAIN g.metrics}

HasGroup(name) == \E k \in 1..Len(metrics_groups) : metrics_groups[k].group_name = name

----------------------------------------------------------------------------
(* Properties of the poll cycle *)

Built == pc \in {"groups", "done"}

DiskFlagSet == include_disk.present /\ include_disk.value # 0

(* C2: if the entity-catalog walk returns no entries then, whatever the    *)
(* temperature, CPU and memory walks return, every classifier (temperature *)
(* sensors, CPUs, memory, fans, power modules) yields an empty set and the *)
(* cycle completes without raising an error.                               *)
C2_EmptyCatalogEmptySets ==
    (Len(snmp[jnxOperatingDescr]) = 0 /\ pc # "start") =>
        /\ pc # "raised"
        /\ \A p \in {"_temp_sensors", "_cpus", "_memory", "_fans", "_power_modules"} :
              p \in DOMAIN cached /\ DOMAIN cached[p] = {}

(* C4: after _build_oids_map and _build_metrics_groups_conf have run, for  *)
(* every value of the disk-metrics flag and empty or non-empty classifier  *)
(* sets, every OID-map field named by a dimension expression, a metric     *)
(* value expression or an indices_from of an emitted metrics group is a    *)
(* key of the OID map.                                                     *)
C4_ReferencedFieldsExist ==
    Built => \A k \in 1..Len(metrics_groups) :
                GroupRefs(metrics_groups[k]) \subseteq DOMAIN oids_map

\* all six groups emitted, the disk group and the power group among them
C4_Witness ==
    /\ Built
    /\ Len(metrics_groups) = 6
    /\ HasGroup("disk")
    /\ "storage_allocation_units" \in GroupRefs(metrics_groups[6])

(* C5: the metrics-group list holds a group named disk iff at least one    *)
(* storage volume was classified (the storage-description walk is not      *)
(* empty) and the include_disk_metrics_group flag is true.                 *)
C5_DiskGroupIff ==
    Built => (HasGroup("disk") <=> (Len(snmp[hrStorageDescr]) > 0 /\ DiskFlagSet))

\* a cycle that emitted the disk group
C5_Witness ==
    /\ pc = "groups"
    /\ HasGroup("disk")
    /\ Len(snmp[hrStorageDescr]) > 0
    /\ DiskFlagSet

(* C6: when add_enrichment_set raises, get_enrichment logs the error, does *)
(* not propagate the exception, still adds the enrichment group to the     *)
(* enrichment group set and returns that set.                              *)
C6_RejectionSwallowed ==
    sink \notin {"idle", "accepted"} =>
        /\ pc = "done"
        /\ \E k \in 1..Len(log) : log[k].level = "error" /\ log[k].exc = sink
        /\ enrichment_group \in enrichment_group_set
        /\ returned = enrichment_group_set

\* a cycle whose enrichment set was rejected
C6_Witness ==
    /\ sink = "Exception"
    /\ pc = "done"
    /\ enrichment_group = {}

\* the scenario: the chassis catalog, polled every 60 s, disk metrics off,
\* with 2 CPUs, 1 fan and 1 power module of type PEM classified
ChassisScenario ==
    /\ Built
    /\ snmp[jnxOperatingDescr] = ChassisDescr
    /\ polling_frequency = "60"
    /\ ~DiskFlagSet
    /\ Cardinality(DOMAIN cached["_cpus"]) = 2
    /\ Cardinality(DOMAIN cached["_fans"]) = 1
    /\ {cached["_power_modules"][x].type : x \in DOMAIN cached["_power_modules"]} = {"PEM"}
    /\ Cardinality(DOMAIN cached["_power_modules"]) = 1

(* C8: in the scenario with catalog {"1": "Routing Engine 0 CPU",          *)
(* "2": "FPC 0 CPU", "3": "Fan Tray 1 Fan 2", "4": "PEM 0"}, poll          *)
(* frequency 60 and the disk flag unset, the emitted metrics-group list    *)
(* has four group entries in total and no disk group.                      *)
C8_FourGroups ==
    ChassisScenario => Len(metrics_groups) = 4 /\ ~HasGroup("disk")

(* C8, amended: in that scenario the emitted metrics-group list has five   *)
(* group entries in total (environment for temperature, cpu, memory,       *)
(* environment for power, environment for fans) and no disk group.         *)
C8_FiveGroups ==
    ChassisScenario =>
        /\ Len(metrics_groups) = 5
        /\ [k \in 1..5 |-> metrics_groups[k].group_name]
              = <<"environment", "cpu", "memory", "environment", "environment">>
        /\ ~HasGroup("disk")

\* the scenario, with the groups built
C8_Witness == ChassisScenario /\ pc = "groups"

----------------------------------------------------------------------------
(* Concurrent readers of the memoized properties of one plugin instance.   *)
(*                                                                         *)
(* threaded_cached_property is a non-data descriptor: a read of the        *)
(* attribute finds the value in the instance __dict__ when it is there,    *)
(* and calls __get__ otherwise, which takes the descriptor's RLock, looks  *)
(* in __dict__ again and, on a miss, runs the function and stores its      *)
(* result with setdefault before the lock is released.  A value is the     *)
(* answer of the walk the function made and the answer behind the          *)
(* property it read while it ran.                                          *)

WalkResults == 0..MaxWalkResult

NoAnswer == 0 - 1

\* the properties whose function walks the device
HasWalk(p) == p \notin {"_fans", "_power_modules"}

\* the property the function of p reads after its walk answered w
NestedOf(p, w) ==
    CASE p \in {"_fans", "_power_modules"} -> "_entity_names"
      [] p \in {"_temp_sensors", "_cpus"} -> IF w # 0 THEN "_entity_names" ELSE "none"
      [] p = "_storage_size" -> "_storage_allocation_units"
      [] OTHER -> "none"

\* a lock anyone may take at any time
CanAcquireAlways(owner, t) == TRUE

\* RLock.acquire returns when the lock is free or already held by the caller
CanAcquire(owner, t) == owner \in {0, t}

\* a release that leaves the lock with its owner
OwnerAfterReleaseKept(count, t) == t

\* RLock.release: the lock is free again once every acquire is released
OwnerAfterRelease(count, t) == IF count = 1 THEN 0 ELSE t

\* obj_dict.setdefault(name, value)
SetDefault(d, name, value) == IF name \in DOMAIN d THEN d ELSE Put(d, name, value)

Frame(p) == [prop |-> p, step |-> "get", walk |-> NoAnswer, inner |-> NoAnswer]

Top(t) == stack[t][Len(stack[t])]

Reading(t) == Len(stack[t]) > 0

\* the stack of a thread once its innermost read has returned v: the function
\* that made the read goes on with the value
StackAfterReturn(st, v) ==
    LET rest == SubSeq(st, 1, Len(st) - 1) IN
    IF Len(rest) = 0 THEN rest
    ELSE [rest EXCEPT ![Len(rest)] = [@ EXCEPT !.inner = v.walk, !.step = "store"]]

Return(t, p, v) ==
    /\ stack' = [stack EXCEPT ![t] = StackAfterReturn(@, v)]
    /\ observed' = [observed EXCEPT ![p] = @ \cup {v}]

SetStep(t, step) ==
    stack' = [stack EXCEPT ![t] = [@ EXCEPT ![Len(@)] = [@ EXCEPT !.step = step]]]

\* reads callers may start, each
InitReads(n) ==
    /\ polling_frequency = "60"
    /\ include_disk = [present |-> FALSE, value |-> 0]
    /\ juniper_model = "unknown"
    /\ snmp = EmptyDevice
    /\ callPc = "none"
    /\ callResult = "none"
    /\ CycleStart
    /\ stack = [t \in Threads |-> <<>>]
    /\ lockOwner = [p \in Props |-> 0]
    /\ lockCount = [p \in Props |-> 0]
    /\ runs = [p \in Props |-> 0]
    /\ observed = [p \in Props |-> {}]
    /\ budget = [t \in Threads |-> n]

InitThreads == InitReads(MaxReads)

InitFair == InitReads(MaxFairReads)

\* a caller starts to read self.<p>
Begin(t, p) ==
    /\ ~Reading(t)
    /\ budget[t] > 0
    /\ budget' = [budget EXCEPT ![t] = @ - 1]
    /\ stack' = [stack EXCEPT ![t] = <<Frame(p)>>]
    /\ UNCHANGED <<cached, lockOwner, lockCount, runs, observed>>

\* the attribute lookup: the instance __dict__ first, the descriptor otherwise
Lookup(t) ==
    /\ Reading(t)
    /\ Top(t).step = "get"
    /\ IF Top(t).prop \in DOMAIN cached
       THEN Return(t, Top(t).prop, cached[Top(t).prop])
       ELSE SetStep(t, "lock") /\ UNCHANGED observed
    /\ UNCHANGED <<cached, lockOwner, lockCount, runs, budget>>

\* with self.lock:
Acquire(t) ==
    /\ Reading(t)
    /\ Top(t).step = "lock"
    /\ CanAcquire(lockOwner[Top(t).prop], t)
    /\ lockOwner' = [lockOwner EXCEPT ![Top(t).prop] = t]
    /\ lockCount' = [lockCount EXCEPT ![Top(t).prop] = @ + 1]
    /\ SetStep(t, "check")
    /\ UNCHANGED <<cached, runs, observed, budget>>

\* try: return obj_dict[name]; except KeyError: run the function
Check(t) ==
    /\ Reading(t)
    /\ Top(t).step = "check"
    /\ LET p == Top(t).prop IN
       IF p \in DOMAIN cached
       THEN /\ Return(t, p, cached[p])
            /\ lockOwner' = [lockOwner EXCEPT ![p] = OwnerAfterRelease(lockCount[p], t)]
            /\ lockCount' = [lockCount EXCEPT ![p] = @ - 1]
            /\ UNCHANGED runs
       ELSE /\ runs' = [runs EXCEPT ![p] = @ + 1]
            /\ SetStep(t, IF HasWalk(p) THEN "walk" ELSE "nested")
            /\ UNCHANGED <<lockOwner, lockCount, observed>>
    /\ UNCHANGED <<cached, budget>>

\* the function's bulk_walk returns
Walk(t, w) ==
    /\ Reading(t)
    /\ Top(t).step = "walk"
    /\ stack' = [stack EXCEPT ![t] =
                    [@ EXCEPT ![Len(@)] =
                        [@ EXCEPT !.walk = w,
                                  !.step = IF NestedOf(Top(t).prop, w) = "none"
                                           THEN "store" ELSE "nested"]]]
    /\ UNCHANGED <<cached, lockOwner, lockCount, runs, observed, budget>>

\* the function reads the property it depends on
ReadNested(t) ==
    /\ Reading(t)
    /\ Top(t).step = "nested"
    /\ stack' = [stack EXCEPT ![t] =
                    Append([@ EXCEPT ![Len(@)] = [@ EXCEPT !.step = "await"]],
                           Frame(NestedOf(Top(t).prop, Top(t).walk)))]
    /\ UNCHANGED <<cached, lockOwner, lockCount, runs, observed, budget>>

\* return obj_dict.setdefault(name, self.func(obj)), and the end of the with block
Store(t) ==
    /\ Reading(t)
    /\ Top(t).step = "store"
    /\ LET p == Top(t).prop IN
       /\ cached' = SetDefault(cached, p, [walk |-> Top(t).walk, inner |-> Top(t).inner])
       /\ Return(t, p, cached'[p])
       /\ lockOwner' = [lockOwner EXCEPT ![p] = OwnerAfterRelease(lockCount[p], t)]
       /\ lockCount' = [lockCount EXCEPT ![p] = @ - 1]
    /\ UNCHANGED <<runs, budget>>

Progress(t) ==
    \/ Lookup(t)
    \/ Acquire(t)
    \/ Check(t)
    \/ \E w \in WalkResults : Walk(t, w)
    \/ ReadNested(t)
    \/ Store(t)

NextThreads ==
    /\ \E t \in Threads :
          \/ \E p \in Props : Begin(t, p)
          \/ Progress(t)
    /\ UNCHANGED <<confVars, snmp, callVars, pc, oids_map, metrics_groups, sink, log,
                   enrichment_group, enrichment_group_set, returned>>

SpecThreads == InitThreads /\ [][NextThreads]_vars

\* every thread that can take a step of a read eventually takes one: the
\* interpreter schedules every runnable thread and every walk returns
FairThreads ==
    InitFair /\ [][NextThreads]_vars /\ \A t \in Threads : WF_readVars(Progress(t))

----------------------------------------------------------------------------
(* Properties of the concurrent readers *)

HeldWhileWaiting(t, q) ==
    {stack[t][k].prop : k \in {j \in 1..(Len(stack[t]) - 1) : lockOwner[stack[t][j].prop] = t}}

LockOrder ==
    \A t \in Threads :
        (Reading(t) /\ Top(t).step = "lock") =>
            \A held \in HeldWhileWaiting(t, Top(t).prop) :
                \/ /\ held \in {"_temp_sensors", "_cpus", "_fans", "_power_modules"}
                   /\ Top(t).prop = "_entity_names"
                \/ /\ held = "_storage_size"
                   /\ Top(t).prop = "_storage_allocation_units"

(* C10: concurrent callers reading any combination of the memoized         *)
(* properties never deadlock: a property's lock is held while the property *)
(* it depends on is computed (_temp_sensors, _cpus, _fans, _power_modules  *)
(* then _entity_names; _storage_size then _storage_allocation_units), this *)
(* order is acyclic, and provided every walk returns, every read           *)
(* eventually returns its value.                                           *)
C10_EveryReadReturns ==
    /\ []LockOrder
    /\ \A t \in Threads : Reading(t) ~> ~Reading(t)

\* a thread holds the lock of _fans and waits for the lock of _entity_names,
\* which another thread holds
C10_Witness ==
    \E t \in Threads, u \in Threads :
        /\ t # u
        /\ Len(stack[t]) = 2
        /\ stack[t][1].prop = "_fans"
        /\ lockOwner["_fans"] = t
        /\ Top(t).prop = "_entity_names"
        /\ Top(t).step = "lock"
        /\ lockOwner["_entity_names"] = u

=============================================================================
